---- MODULE Spec2Model ----
(***************************************************************************)
(* StreamLive2DAudioProcessor: the audio-to-lip-sync engine of the Amadeus *)
(* web frontend, as a state machine.  One engine instance, the Web Audio   *)
(* contexts it creates, the frame callbacks it has pending, the connect*   *)
(* calls suspended at an await, and the deferred-resume listeners.         *)
(*                                                                         *)
(* Objects are named by the connect call that created them: call k creates *)
(* AudioContext k and its source / analyser / gain nodes, so a node field  *)
(* of the engine holds 0 (undefined) or the number of its context.         *)
(* Numbers: sample amplitudes and intensities are in thousandths           *)
(* (Milli), shaped values in 1/PowScale, and lastMouthValue is the dyadic  *)
(* fraction m / (PowScale * 2^k), so the 0.5/0.5 smoothing is exact.       *)
(***************************************************************************)
EXTENDS Integers, Sequences, FiniteSets

\* ---------------------------------------------------------------- bounds
MaxConnects == 2       \* connect* calls of a behaviour
MaxTicks == 2          \* working ticks of a behaviour
MaxOverlap == 3        \* connect* calls of a behaviour of SpecOverlap
MaxSilence == 10       \* further ticks on a silent buffer in SpecSignal

\* ------------------------------------------------------ program constants
FftSize == 256
SmoothingTenths == 9
Amplification == 20
NoiseGateMilli == 200
BiasWeightTenths == 12
BiasPowerTenths == 7
BlendWeightTenths == 8
SilentGainValue == 0

\* ------------------------------------------------------- numeric scales
Milli == 10 * 10 * 10          \* amplitudes and intensities: thousandths
PowScale == 10 * Milli          \* gated and shaped values: 1/10000
PowBits == 2 * 4                \* binary digits of the exponent 0.7 that Pow uses

Calls == 1..MaxOverlap
Elements == {"audioA", "audioB"}
\* audioA plays a MediaStream (its srcObject); audioB plays a URL
HasStream(audioElement) == audioElement = "audioA"
NoElement == "undefined"
GestureEvents == {"click", "touchstart", "keydown"}
Amplitudes == {0, 50}          \* sample amplitudes fed to the analyser, in Milli
\* The amplitudes of SpecSignal: silence, below / at / around / above the noise
\* gate, a negative sample, full scale and beyond
SignalAmplitudes == {-30, 0, 5, 9, 10, 11, 15, 20, 30, 40, 50, 80}
ParamIds == {"ParamMouthOpenY", "ParamMouthForm", "ParamAngleX"}
FailPoints == {"none", "disconnect", "context", "source", "analyser", "gain",
               "connect1", "connect2", "connect3"}
TickFaults == {"none", "analyser", "write"}

VARIABLES
    streamAudioElement,   \* Elements or NoElement
    streamAnalyzer,       \* 0 or the context whose analyser it is
    streamContext,        \* 0 or a context
    streamSource,         \* 0 or the context whose source node it is
    silentGain,           \* 0 or the context whose gain node it is
    isStreamActive,
    animationFrameId,     \* 0 (undefined) or a frame handle
    targetModel,          \* TRUE: a puppet is held
    lastMouthValue,       \* [m, k]: m / (PowScale * 2^k)
    factoryModel,         \* the base model createStreamLive2DModel extended
    puppet,               \* the shape of the target puppet
    ctx,                  \* every AudioContext created so far
    edges,                \* connections <<context, from, to>> of the audio graphs
    rafPending,           \* frame handles whose updateLipSync callback is pending
    calls,                \* the connect* calls: position and result
    resumePending,        \* contexts with an unsettled resume() promise
    docListeners,         \* <<call, event>>: gesture listeners on the document
    elListeners,          \* <<call, element>>: 'playing' listeners on audio elements
    gestureHandlers,      \* resumeOnGesture invocations suspended at their await
    handlerRuns,          \* per call: how often resumeOnGesture was invoked
    writes,               \* the parameter writes of the most recent working tick
    ticks,                \* working ticks so far
    signal,               \* the values inside the latest updateMouthParameters
    stopped,              \* disconnectStream returned and no connect marked active since
    destroyed,            \* destroy() has returned
    last,                 \* the most recent operation and its outcome
    page,                 \* CallPage: its Live2D effect and what handleAudioTrack did
    agent                 \* AgentClient: its connect effect

engineFields == <<streamAudioElement, streamAnalyzer, streamContext, streamSource,
                  silentGain, isStreamActive, animationFrameId, targetModel,
                  lastMouthValue>>
processorVars == <<streamAudioElement, streamAnalyzer, streamContext, streamSource,
                   silentGain, isStreamActive, animationFrameId, targetModel,
                   lastMouthValue, factoryModel, puppet, ctx, edges, rafPending,
                   calls, resumePending, docListeners, elListeners, gestureHandlers,
                   handlerRuns, writes, ticks, signal, stopped, destroyed, last>>
vars == <<streamAudioElement, streamAnalyzer, streamContext, streamSource,
          silentGain, isStreamActive, animationFrameId, targetModel,
          lastMouthValue, factoryModel, puppet, ctx, edges, rafPending, calls,
          resumePending, docListeners, elListeners, gestureHandlers,
          handlerRuns, writes, ticks, signal, stopped, destroyed, last,
          page, agent>>

\* ------------------------------------------------------------ arithmetic
Min(a, b) == IF a < b THEN a ELSE b
Max(a, b) == IF a > b THEN a ELSE b

RECURSIVE TwoTo(_)
TwoTo(n) == IF n = 0 THEN 1 ELSE 2 * TwoTo(n - 1)

RECURSIVE SqrtSearch(_, _, _)
SqrtSearch(n, lo, hi) ==
    IF lo >= hi THEN lo
    ELSE LET mid == (lo + hi + 1) \div 2
         IN  IF mid * mid <= n THEN SqrtSearch(n, mid, hi)
                               ELSE SqrtSearch(n, lo, mid - 1)

\* Math.sqrt on integers: the floor of the square root
ISqrt(n) == SqrtSearch(n, 0, 46340)

\* The i-th binary digit of the exponent bias_power = 0.7
ExpBit(i) == ((BiasPowerTenths * TwoTo(i)) \div 10) % 2

\* Math.pow(x, 0.7) in fixed point: x^(1/2) * x^(1/8) * x^(1/16) * ... over the
\* binary digits of 0.7, each root and product rounded down to 1/PowScale.
RECURSIVE PowChain(_, _)
PowChain(r, i) ==
    IF i > PowBits THEN PowScale
    ELSE LET s == ISqrt(r * PowScale)
             rest == PowChain(s, i + 1)
         IN  IF ExpBit(i) = 1 THEN (s * rest) \div PowScale ELSE rest

Pow(x) == PowChain(x, 1)

\* ------------------------------------------------------ the signal chain
\* The Float32Array the analyser fills: fftSize samples of amplitude a
PcmData(a) == [i \in 1..FftSize |-> a]

\* The loop "sumSquares += amplitude * amplitude" over pcm[lo..hi], summed by halves
RECURSIVE SumSquares(_, _, _)
SumSquares(pcm, lo, hi) ==
    IF lo > hi THEN 0
    ELSE IF lo = hi THEN pcm[lo] * pcm[lo]
    ELSE LET mid == (lo + hi) \div 2
         IN  SumSquares(pcm, lo, mid) + SumSquares(pcm, mid + 1, hi)

\* analyzeAudio: RMS, amplified 20 times, clamped to [0, 1] (in Milli)
AnalyzeAudio(pcm) ==
    LET sumSquares == SumSquares(pcm, 1, Len(pcm))
        rms == ISqrt(sumSquares \div Len(pcm))
        amplified == rms * Amplification
    IN  Min(Max(amplified, 0), Milli)

\* analyzeAudio on the buffer of each amplitude the analyser can hold
AudioValueOf == [a \in SignalAmplitudes |-> AnalyzeAudio(PcmData(a))]

\* A slip: the threshold is removed, the remaining range is not normalised
NoiseGateUnscaled(value) ==
    IF value < NoiseGateMilli THEN 0
    ELSE ((value - NoiseGateMilli) * PowScale) \div Milli

\* The noise gate of updateMouthParameters: Milli in, 1/PowScale out
NoiseGate(value) ==
    IF value < NoiseGateMilli THEN 0
    ELSE ((value - NoiseGateMilli) * PowScale) \div (Milli - NoiseGateMilli)

\* A slip: what exceeds max_ wraps around instead of being clamped
ShapeWrapped(value) ==
    ((Pow(value) * BiasWeightTenths) \div 10) % (PowScale + 1)

\* Dynamic shaping: pow(value, 0.7) * 1.2, clamped to [0, 1]
Shape(value) ==
    Min(Max((Pow(value) * BiasWeightTenths) \div 10, 0), PowScale)

RECURSIVE Normal(_, _)
Normal(m, k) ==
    IF k > 0 /\ m % 2 = 0 THEN Normal(m \div 2, k - 1) ELSE [m |-> m, k |-> k]

\* A slip: the two terms are added without their weights
SmoothUnweighted(shaped, lmv) == Normal(shaped * TwoTo(lmv.k) + lmv.m, lmv.k)

\* A slip: the weights are 0.25 / 0.75
SmoothSlow(shaped, lmv) == Normal(shaped * TwoTo(lmv.k) + 3 * lmv.m, lmv.k + 2)

\* value = 0.5 * value + 0.5 * lastMouthValue, exactly
Smooth(shaped, lmv) == Normal(shaped * TwoTo(lmv.k) + lmv.m, lmv.k + 1)

MouthZero == [m |-> 0, k |-> 0]

\* The value updateMouthParameters stores and writes for an intensity
MouthValue(audioValue, lmv) == Smooth(Shape(NoiseGate(audioValue)), lmv)

\* The gated value of each amplitude the analyser can hold
GatedOf == [a \in SignalAmplitudes |-> NoiseGate(AudioValueOf[a])]

\* The gated and shaped value of each amplitude the analyser can hold
ShapedOf == [a \in SignalAmplitudes |-> Shape(GatedOf[a])]

\* The locals of updateMouthParameters in its latest run past the guard of line
\* 266: the intensity it was given, the value after the gate and after the
\* shaping; how many ticks in a row read an all-zero sample buffer (silentRun),
\* how many of them went past that guard (silentSmoothed), and lastMouthValue
\* before the first of them
Signal(intensity, gated, shaped, run, smoothed, start) ==
    [intensity |-> intensity, gated |-> gated, shaped |-> shaped,
     silentRun |-> run, silentSmoothed |-> smoothed, silentStart |-> start]

NoSignal == Signal(0, 0, 0, 0, 0, MouthZero)

\* The record after a tick that read samples of the given amplitude; smoothed:
\* the puppet had a motion manager, so the tick went on to the smoothing
SignalAfter(amplitude, sig, lmv, smoothed) ==
    Signal(IF smoothed THEN AudioValueOf[amplitude] ELSE sig.intensity,
           IF smoothed THEN GatedOf[amplitude] ELSE sig.gated,
           IF smoothed THEN ShapedOf[amplitude] ELSE sig.shaped,
           IF amplitude = 0 THEN sig.silentRun + 1 ELSE 0,
           IF amplitude # 0 THEN 0
           ELSE IF smoothed THEN sig.silentSmoothed + 1 ELSE sig.silentSmoothed,
           IF amplitude # 0 THEN MouthZero
           ELSE IF sig.silentRun = 0 THEN lmv ELSE sig.silentStart)

\* ------------------------------------------------------------ the puppet
Write(fn, id, index, value, weight) ==
    [fn |-> fn, id |-> id, index |-> index, value |-> value, weightTenths |-> weight]

\* A slip: the loops run over every parameter of the model
EveryParamId(p) == <<"ParamMouthOpenY", "ParamMouthForm", "ParamAngleX">>

\* const lipSyncIds = motionManager.lipSyncIds || []
LipSyncIds(p) == IF p.listed THEN p.lipSyncIds ELSE <<>>

RECURSIVE SetWrites(_, _, _)
SetWrites(p, i, value) ==
    IF i > Len(LipSyncIds(p)) THEN <<>>
    ELSE LET paramIndex == p.paramIndex[LipSyncIds(p)[i]]
         IN  (IF paramIndex >= 0
                 THEN <<Write("setParamFloat", LipSyncIds(p)[i], paramIndex, value, 10)>>
                 ELSE <<>>)
             \o SetWrites(p, i + 1, value)

RECURSIVE AddWrites(_, _, _)
AddWrites(p, i, value) ==
    IF i > Len(LipSyncIds(p)) THEN <<>>
    ELSE <<Write("addParameterValueById", LipSyncIds(p)[i], -1, value, BlendWeightTenths)>>
         \o AddWrites(p, i + 1, value)

\* A slip: the second loop is an else branch of the first
MouthWritesEitherOr(p, value) ==
    IF p.setParamFloat THEN SetWrites(p, 1, value)
    ELSE IF p.addParameterValueById THEN AddWrites(p, 1, value) ELSE <<>>

\* The parameter writes of updateMouthParameters, in program order
MouthWrites(p, value) ==
    (IF p.setParamFloat THEN SetWrites(p, 1, value) ELSE <<>>)
    \o (IF p.addParameterValueById THEN AddWrites(p, 1, value) ELSE <<>>)

ParamIndexOf == [id \in ParamIds |->
                    IF id = "ParamMouthOpenY" THEN 0
                    ELSE IF id = "ParamAngleX" THEN 1 ELSE -1]

PuppetShape(mm, ids, setter, adder) ==
    [motionManager |-> mm, listed |-> TRUE, lipSyncIds |-> ids,
     setParamFloat |-> setter, addParameterValueById |-> adder,
     paramIndex |-> ParamIndexOf]

Puppets ==
    { PuppetShape(TRUE, <<"ParamMouthOpenY">>, FALSE, TRUE),
      PuppetShape(TRUE, <<"ParamMouthOpenY", "ParamMouthForm">>, TRUE, FALSE),
      PuppetShape(TRUE, <<"ParamMouthOpenY">>, TRUE, TRUE),
      PuppetShape(TRUE, <<>>, FALSE, FALSE),
      PuppetShape(TRUE, <<"ParamMouthOpenY">>, FALSE, FALSE),
      [PuppetShape(TRUE, <<>>, TRUE, TRUE) EXCEPT !.listed = FALSE],
      PuppetShape(FALSE, <<>>, FALSE, TRUE) }


\* ----------------------------------------------------------- the engine
Last(op, ok, repeat) == [op |-> op, ok |-> ok, repeat |-> repeat]

NoContext == [state |-> "uncreated", source |-> "none", analyser |-> FALSE,
              fftSize |-> 0, smoothingTenths |-> 0, gain |-> FALSE, gainValue |-> -1]

IdleCall == [kind |-> "none", pc |-> "idle", element |-> NoElement, awaiting |-> 0,
             result |-> "pending"]

\* A connect* call that has returned: only its result remains
DoneCall(result) == [IdleCall EXCEPT !.pc = "done", !.result = result]

\* createStreamLive2DModel: the processor is built on the base model, and the
\* base model gets the VALUE isStreaming has at that moment
\* originalDestroy: the base model had a destroy of its own (a Live2DModel has);
\* destroyCalls: what the overriding destroy has called so far, in order
FactoryModel == [attached |-> TRUE, isStreaming |-> FALSE,
                 originalDestroy |-> TRUE, destroyCalls |-> <<>>]
NoFactoryModel == [attached |-> FALSE, isStreaming |-> FALSE,
                   originalDestroy |-> FALSE, destroyCalls |-> <<>>]

\* The first puppet shape: the one a bare processor is given
DefaultPuppet == PuppetShape(TRUE, <<"ParamMouthOpenY">>, FALSE, TRUE)

\* A puppet without a motion manager
StaticPuppet == PuppetShape(FALSE, <<>>, FALSE, TRUE)

\* The field initialisers and what surrounds a new engine
\* CallPage before the Live2D script is ready: modelRef.current is null, no
\* model has been created, handleAudioTrack has dropped no track
NoPage == [mounted |-> TRUE, live2dLoaded |-> FALSE, load |-> "none",
           modelRef |-> FALSE, created |-> FALSE, dropped |-> 0]

\* AgentClient before its connect effect has run
NoAgent == [pc |-> "idle", cancelled |-> FALSE, cleanedAt |-> "none",
            connectCalls |-> 0, unlock |-> {}, unlocking |-> 0]

Constructed ==
    /\ streamAudioElement = NoElement
    /\ streamAnalyzer = 0
    /\ streamContext = 0
    /\ streamSource = 0
    /\ silentGain = 0
    /\ isStreamActive = FALSE
    /\ animationFrameId = 0
    /\ lastMouthValue = MouthZero
    /\ ctx = [c \in Calls |-> NoContext]
    /\ edges = {}
    /\ rafPending = {}
    /\ calls = [k \in Calls |-> IdleCall]
    /\ resumePending = {}
    /\ docListeners = {}
    /\ elListeners = {}
    /\ gestureHandlers = {}
    /\ handlerRuns = [k \in Calls |-> 0]
    /\ writes = <<>>
    /\ ticks = 0
    /\ signal = NoSignal
    /\ stopped = FALSE
    /\ destroyed = FALSE
    /\ last = Last("init", TRUE, FALSE)
    /\ page = NoPage
    /\ agent = NoAgent

Init ==
    /\ Constructed
    /\ \/ /\ factoryModel = FactoryModel
          /\ targetModel = TRUE
          /\ puppet \in {DefaultPuppet, StaticPuppet}
       \/ /\ factoryModel = NoFactoryModel
          /\ targetModel \in BOOLEAN
          /\ puppet = DefaultPuppet

\* A processor constructed on a puppet of any shape
InitPuppets ==
    /\ Constructed
    /\ factoryModel = NoFactoryModel
    /\ targetModel = TRUE
    /\ puppet \in Puppets

\* requestAnimationFrame: a handle no pending callback has
FreshFrame(pending) ==
    CHOOSE i \in 1..(Cardinality(pending) + 1) :
        i \notin pending /\ \A j \in 1..(i - 1) : j \in pending

CallsStarted == Cardinality({k \in Calls : calls[k].pc # "idle"})
InFlight == {k \in Calls : calls[k].pc \in {"play", "resume"}}

\* ---- disconnectStream, field by field
\* cancelAnimationFrame(this.animationFrameId)
CancelledFrames ==
    IF animationFrameId # 0 THEN rafPending \ {animationFrameId} ELSE rafPending

\* A slip: the flag is cleared only inside the "if (this.animationFrameId)" block
ActiveClearedWithFrameOnly == IF animationFrameId # 0 THEN FALSE ELSE isStreamActive

\* this.isStreamActive = false
ActiveAfterDisconnect == FALSE

\* A slip: the node references are dropped, disconnect() is never called
EdgesLeftConnected == edges

\* streamSource / streamAnalyzer / silentGain .disconnect(): the node's outputs go
DisconnectedEdges ==
    { e \in edges :
        ~ \/ (streamSource # 0 /\ e[1] = streamSource /\ e[2] = "source")
          \/ (streamAnalyzer # 0 /\ e[1] = streamAnalyzer /\ e[2] = "analyser")
          \/ (silentGain # 0 /\ e[1] = silentGain /\ e[2] = "gain") }

\* A slip: only a running context is closed
ContextClosedIfRunning == streamContext # 0 /\ ctx[streamContext].state = "running"

\* if (this.streamContext && this.streamContext.state !== 'closed')
ContextToClose == streamContext # 0 /\ ctx[streamContext].state # "closed"

\* A closed AudioContext: its nodes are released with it
ClosedContext == [NoContext EXCEPT !.state = "closed"]

\* A slip: the reference is dropped and close() is never called
ContextsLeftOpen == ctx

\* this.streamContext.close()
ClosedContexts ==
    IF ContextToClose THEN [ctx EXCEPT ![streamContext] = ClosedContext] ELSE ctx

\* A slip: the graph is torn down, the loop is neither cancelled nor marked inactive
DisconnectedLoopLeftRunning ==
    [ rafPending |-> rafPending,
      animationFrameId |-> animationFrameId,
      isStreamActive |-> isStreamActive,
      edges |-> DisconnectedEdges,
      streamSource |-> 0,
      streamAnalyzer |-> 0,
      silentGain |-> 0,
      ctx |-> ClosedContexts,
      streamContext |-> IF ContextToClose THEN 0 ELSE streamContext,
      streamAudioElement |-> NoElement ]

\* The engine and its surroundings after disconnectStream()
Disconnected ==
    [ rafPending |-> CancelledFrames,
      animationFrameId |-> 0,
      isStreamActive |-> ActiveAfterDisconnect,
      edges |-> DisconnectedEdges,
      streamSource |-> 0,
      streamAnalyzer |-> 0,
      silentGain |-> 0,
      ctx |-> ClosedContexts,
      streamContext |-> IF ContextToClose THEN 0 ELSE streamContext,
      streamAudioElement |-> NoElement ]

\* The engine as it is
Undisturbed ==
    [ rafPending |-> rafPending,
      animationFrameId |-> animationFrameId,
      isStreamActive |-> isStreamActive,
      edges |-> edges,
      streamSource |-> streamSource,
      streamAnalyzer |-> streamAnalyzer,
      silentGain |-> silentGain,
      ctx |-> ctx,
      streamContext |-> streamContext,
      streamAudioElement |-> streamAudioElement ]

\* The disconnectStream() that opens connect*, inside its try block: it returns,
\* or it throws before it has changed anything
DisconnectedFirst(failAt) == IF failAt = "disconnect" THEN Undisturbed ELSE Disconnected

\* A slip: the catch block rethrows
FaultEscapes == "rejected"

\* catch (error) { console.error(...); return false; }
CaughtResult == "false"

DisconnectStream ==
    /\ ~destroyed
    /\ LET d == Disconnected
       IN  /\ rafPending' = d.rafPending
           /\ animationFrameId' = d.animationFrameId
           /\ isStreamActive' = d.isStreamActive
           /\ edges' = d.edges
           /\ streamSource' = d.streamSource
           /\ streamAnalyzer' = d.streamAnalyzer
           /\ silentGain' = d.silentGain
           /\ ctx' = d.ctx
           /\ streamContext' = d.streamContext
           /\ streamAudioElement' = d.streamAudioElement
    /\ stopped' = TRUE
    /\ last' = Last("disconnect", TRUE, last.op \in {"disconnect", "init"})
    /\ UNCHANGED <<targetModel, lastMouthValue, factoryModel, puppet, calls,
                   resumePending, docListeners, elListeners, gestureHandlers,
                   handlerRuns, writes, ticks, signal, destroyed, page, agent>>

\* destroy(): disconnectStream(), then the target is released
Destroy ==
    /\ ~destroyed
    /\ LET d == Disconnected
       IN  /\ rafPending' = d.rafPending
           /\ animationFrameId' = d.animationFrameId
           /\ isStreamActive' = d.isStreamActive
           /\ edges' = d.edges
           /\ streamSource' = d.streamSource
           /\ streamAnalyzer' = d.streamAnalyzer
           /\ silentGain' = d.silentGain
           /\ ctx' = d.ctx
           /\ streamContext' = d.streamContext
           /\ streamAudioElement' = d.streamAudioElement
    /\ targetModel' = FALSE
    /\ stopped' = TRUE
    /\ destroyed' = TRUE
    /\ last' = Last("destroy", TRUE, FALSE)
    /\ UNCHANGED <<lastMouthValue, factoryModel, puppet, calls, resumePending,
                   docListeners, elListeners, gestureHandlers, handlerRuns,
                   writes, ticks, signal, page, agent>>

\* The calls of the destroy that createStreamLive2DModel puts on the base model
OverridingDestroy(model) ==
    <<"audioProcessor.destroy">>
    \o (IF model.originalDestroy THEN <<"originalDestroy">> ELSE <<>>)

\* baseModel.destroy() of an extended model: audioProcessor.destroy(), that is
\* disconnectStream() and the release of the target, then the original destroy
ModelDestroyed ==
    /\ ~destroyed
    /\ factoryModel.attached
    /\ LET d == Disconnected
           called == OverridingDestroy(factoryModel)
           processorDestroyed == \E i \in 1..Len(called) : called[i] = "audioProcessor.destroy"
       IN  /\ rafPending' = IF processorDestroyed THEN d.rafPending ELSE rafPending
           /\ animationFrameId' =
                 IF processorDestroyed THEN d.animationFrameId ELSE animationFrameId
           /\ isStreamActive' =
                 IF processorDestroyed THEN d.isStreamActive ELSE isStreamActive
           /\ edges' = IF processorDestroyed THEN d.edges ELSE edges
           /\ streamSource' = IF processorDestroyed THEN d.streamSource ELSE streamSource
           /\ streamAnalyzer' =
                 IF processorDestroyed THEN d.streamAnalyzer ELSE streamAnalyzer
           /\ silentGain' = IF processorDestroyed THEN d.silentGain ELSE silentGain
           /\ ctx' = IF processorDestroyed THEN d.ctx ELSE ctx
           /\ streamContext' = IF processorDestroyed THEN d.streamContext ELSE streamContext
           /\ streamAudioElement' =
                 IF processorDestroyed THEN d.streamAudioElement ELSE streamAudioElement
           /\ targetModel' = IF processorDestroyed THEN FALSE ELSE targetModel
           /\ stopped' = IF processorDestroyed THEN TRUE ELSE stopped
           /\ factoryModel' =
                 [factoryModel EXCEPT !.destroyCalls = factoryModel.destroyCalls \o called]
    /\ destroyed' = TRUE
    /\ last' = Last("modelDestroy", TRUE, FALSE)
    /\ UNCHANGED <<lastMouthValue, puppet, calls, resumePending, docListeners,
                   elListeners, gestureHandlers, handlerRuns, writes, ticks, signal>>

\* model.destroy() called on its own
ModelDestroy == ModelDestroyed /\ UNCHANGED <<page, agent>>

SetTargetModel(model) ==
    /\ ~destroyed
    /\ targetModel # model
    /\ targetModel' = model
    /\ last' = Last("setTargetModel", model, FALSE)
    /\ UNCHANGED <<streamAudioElement, streamAnalyzer, streamContext, streamSource,
                   silentGain, isStreamActive, animationFrameId, lastMouthValue,
                   factoryModel, puppet, ctx, edges, rafPending, calls,
                   resumePending, docListeners, elListeners, gestureHandlers,
                   handlerRuns, writes, ticks, signal, stopped, destroyed, page, agent>>

\* ---- building the graph: the statements of connect* up to the first await
FailIndex(failAt) ==
    CASE failAt = "disconnect" -> 0
      [] failAt = "context" -> 1
      [] failAt = "source" -> 2
      [] failAt = "analyser" -> 3
      [] failAt = "gain" -> 4
      [] failAt = "connect1" -> 5
      [] failAt = "connect2" -> 6
      [] failAt = "connect3" -> 7
      [] OTHER -> 8

\* What a connect method sets on its nodes and the three connect() calls it
\* makes, in program order
GraphPlan(fftSize, smoothingTenths, gainValue, wiring) ==
    [fftSize |-> fftSize, smoothingTenths |-> smoothingTenths,
     gainValue |-> gainValue, wiring |-> wiring]

\* A slip: the analyser is wired through to the output, the usual pattern
LiveKitGraphAudible ==
    GraphPlan(FftSize, SmoothingTenths, SilentGainValue,
              << <<"source", "analyser">>, <<"source", "gain">>,
                 <<"analyser", "destination">> >>)

\* connectLiveKitAudio, lines 105-114
LiveKitGraph ==
    GraphPlan(FftSize, SmoothingTenths, SilentGainValue,
              << <<"source", "analyser">>, <<"source", "gain">>,
                 <<"gain", "destination">> >>)

\* A slip: smoothingTimeConstant is left at the analyser's default, 0.8
MediaStreamGraphDefaultSmoothing ==
    GraphPlan(FftSize, SmoothingTenths - 1, SilentGainValue,
              << <<"source", "analyser">>, <<"source", "gain">>,
                 <<"gain", "destination">> >>)

\* connectMediaStream, lines 181-190
MediaStreamGraph ==
    GraphPlan(FftSize, SmoothingTenths, SilentGainValue,
              << <<"source", "analyser">>, <<"source", "gain">>,
                 <<"gain", "destination">> >>)

\* A slip: the element is always captured itself
ElementSourceAlways(audioElement) == "element"

\* The source node of connectLiveKitAudio: from the element's srcObject if that
\* is a MediaStream, else from the element
SourceKind(audioElement) ==
    IF HasStream(audioElement) THEN "stream" ELSE "element"

\* The graph fields after call k built its graph on the disconnected engine d
\* as plan says, the statement failAt throwing (every statement before it has
\* run)
BuiltGraph(k, d, state0, sourceKind, plan, failAt) ==
    LET n == FailIndex(failAt)
        made == [state |-> state0,
                 source |-> IF n > 2 THEN sourceKind ELSE "none",
                 analyser |-> n > 3,
                 fftSize |-> IF n > 3 THEN plan.fftSize ELSE 0,
                 smoothingTenths |-> IF n > 3 THEN plan.smoothingTenths ELSE 0,
                 gain |-> n > 4,
                 gainValue |-> IF n > 4 THEN plan.gainValue ELSE -1]
        edge(i) == <<k, plan.wiring[i][1], plan.wiring[i][2]>>
    IN  [ ctx |-> IF n > 1 THEN [d.ctx EXCEPT ![k] = made] ELSE d.ctx,
          streamContext |-> IF n > 1 THEN k ELSE d.streamContext,
          streamSource |-> IF n > 2 THEN k ELSE d.streamSource,
          streamAnalyzer |-> IF n > 3 THEN k ELSE d.streamAnalyzer,
          silentGain |-> IF n > 4 THEN k ELSE d.silentGain,
          edges |-> d.edges
                    \cup (IF n > 5 THEN {edge(1)} ELSE {})
                    \cup (IF n > 6 THEN {edge(2)} ELSE {})
                    \cup (IF n > 7 THEN {edge(3)} ELSE {}) ]

\* A slip: tryResume never calls resume()
ResumeSkipped(c, contexts) == 0

\* A slip: tryResume does not look at the state of the context
ResumeAnyState(c, contexts) == c

\* tryResume up to its await: resume() is called on the context the engine
\* holds now, if it is suspended.  0: nothing to wait for.
ResumeTarget(c, contexts) ==
    IF c # 0 /\ contexts[c].state = "suspended" THEN c ELSE 0

\* startAudioAnalysis: its guard
AnalysisStarts(active, analyzer) == active /\ analyzer # 0


\* ---- connectLiveKitAudio, from the call to its first await (or its return)
ConnectLiveKitAudio(audioElement, paused, state0, failAt) ==
    /\ ~destroyed
    /\ CallsStarted < MaxOverlap
    /\ LET k == CallsStarted + 1
           d == DisconnectedFirst(failAt)
           g == BuiltGraph(k, d, state0, SourceKind(audioElement), LiveKitGraph, failAt)
           t == ResumeTarget(g.streamContext, g.ctx)
       IN  /\ streamAudioElement' =
                   IF failAt = "disconnect" THEN d.streamAudioElement ELSE audioElement
           /\ ctx' = g.ctx
           /\ edges' = g.edges
           /\ streamContext' = g.streamContext
           /\ streamSource' = g.streamSource
           /\ streamAnalyzer' = g.streamAnalyzer
           /\ silentGain' = g.silentGain
           /\ rafPending' = d.rafPending
           /\ animationFrameId' = d.animationFrameId
           /\ isStreamActive' = d.isStreamActive
           /\ IF failAt # "none"
              THEN \* the catch block: return false
                   /\ calls' = [calls EXCEPT ![k] = DoneCall(CaughtResult)]
                   /\ resumePending' = resumePending
                   /\ last' = Last("resolve", FALSE, FALSE)
              ELSE IF paused
              THEN \* await audioElement.play().catch(...)
                   /\ calls' = [calls EXCEPT ![k] =
                         [kind |-> "livekit", pc |-> "play", element |-> audioElement,
                          awaiting |-> 0, result |-> "pending"]]
                   /\ resumePending' = resumePending
                   /\ last' = Last("connect", TRUE, FALSE)
              ELSE \* await tryResume()
                   /\ calls' = [calls EXCEPT ![k] =
                         [kind |-> "livekit", pc |-> "resume", element |-> audioElement,
                          awaiting |-> t, result |-> "pending"]]
                   /\ resumePending' = resumePending \cup (IF t # 0 THEN {t} ELSE {})
                   /\ last' = Last("connect", TRUE, FALSE)
    /\ stopped' = IF failAt = "disconnect" THEN stopped ELSE TRUE
    /\ UNCHANGED <<targetModel, lastMouthValue, factoryModel, puppet, docListeners,
                   elListeners, gestureHandlers, handlerRuns, writes, ticks, signal, destroyed, page, agent>>

\* connectLiveKitAudio resumed after the play() promise settled: tryResume()
\* runs up to its own await, on the context the engine holds now
ConnectAfterPlay(k) ==
    /\ calls[k].pc = "play"
    /\ LET t == ResumeTarget(streamContext, ctx)
       IN  /\ calls' = [calls EXCEPT ![k].pc = "resume", ![k].awaiting = t]
           /\ resumePending' = resumePending \cup (IF t # 0 THEN {t} ELSE {})
    /\ last' = Last("event", TRUE, FALSE)
    /\ UNCHANGED <<streamAudioElement, streamAnalyzer, streamContext, streamSource,
                   silentGain, isStreamActive, animationFrameId, targetModel,
                   lastMouthValue, factoryModel, puppet, ctx, edges, rafPending,
                   docListeners, elListeners, gestureHandlers, handlerRuns, writes,
                   ticks, signal, stopped, destroyed, page, agent>>

\* connect* resumed after its resume await: the listeners (connectLiveKitAudio
\* only), isStreamActive = true, startAudioAnalysis(), return true
ConnectFinish(k) ==
    /\ calls[k].pc = "resume"
    /\ calls[k].awaiting \notin resumePending
    /\ calls' = [calls EXCEPT ![k] = DoneCall("true")]
    /\ IF calls[k].kind = "livekit"
       THEN /\ docListeners' = docListeners \cup {<<k, e>> : e \in GestureEvents}
            /\ elListeners' = elListeners \cup {<<k, calls[k].element>>}
       ELSE UNCHANGED <<docListeners, elListeners>>
    /\ isStreamActive' = TRUE
    /\ IF AnalysisStarts(TRUE, streamAnalyzer)
       THEN /\ animationFrameId' = FreshFrame(rafPending)
            /\ rafPending' = rafPending \cup {FreshFrame(rafPending)}
       ELSE UNCHANGED <<animationFrameId, rafPending>>
    /\ stopped' = FALSE
    /\ last' = Last("resolve", TRUE, FALSE)
    /\ UNCHANGED <<streamAudioElement, streamAnalyzer, streamContext, streamSource,
                   silentGain, targetModel, lastMouthValue, factoryModel, puppet,
                   ctx, edges, resumePending, gestureHandlers, handlerRuns, writes,
                   ticks, signal, destroyed, page, agent>>

\* ---- connectMediaStream, from the call to its await (or its return)
ConnectMediaStream(state0, failAt) ==
    /\ ~destroyed
    /\ CallsStarted < MaxOverlap
    /\ LET k == CallsStarted + 1
           d == DisconnectedFirst(failAt)
           g == BuiltGraph(k, d, state0, "stream", MediaStreamGraph, failAt)
       IN  /\ streamAudioElement' = d.streamAudioElement
           /\ ctx' = g.ctx
           /\ edges' = g.edges
           /\ streamContext' = g.streamContext
           /\ streamSource' = g.streamSource
           /\ streamAnalyzer' = g.streamAnalyzer
           /\ silentGain' = g.silentGain
           /\ IF failAt # "none"
              THEN \* the catch block: return false
                   /\ calls' = [calls EXCEPT ![k] = DoneCall(CaughtResult)]
                   /\ resumePending' = resumePending
                   /\ rafPending' = d.rafPending
                   /\ animationFrameId' = d.animationFrameId
                   /\ isStreamActive' = d.isStreamActive
                   /\ stopped' = IF failAt = "disconnect" THEN stopped ELSE TRUE
                   /\ last' = Last("resolve", FALSE, FALSE)
              ELSE IF state0 = "suspended"
              THEN \* await this.streamContext.resume()
                   /\ calls' = [calls EXCEPT ![k] =
                         [kind |-> "media", pc |-> "resume", element |-> NoElement,
                          awaiting |-> k, result |-> "pending"]]
                   /\ resumePending' = resumePending \cup {k}
                   /\ rafPending' = d.rafPending
                   /\ animationFrameId' = d.animationFrameId
                   /\ isStreamActive' = d.isStreamActive
                   /\ stopped' = TRUE
                   /\ last' = Last("connect", TRUE, FALSE)
              ELSE \* no await: active, startAudioAnalysis(), return true
                   /\ calls' = [calls EXCEPT ![k] = DoneCall("true")]
                   /\ resumePending' = resumePending
                   /\ isStreamActive' = TRUE
                   /\ IF AnalysisStarts(TRUE, g.streamAnalyzer)
                      THEN /\ animationFrameId' = FreshFrame(d.rafPending)
                           /\ rafPending' = d.rafPending \cup {FreshFrame(d.rafPending)}
                      ELSE /\ animationFrameId' = d.animationFrameId
                           /\ rafPending' = d.rafPending
                   /\ stopped' = FALSE
                   /\ last' = Last("resolve", TRUE, FALSE)
    /\ UNCHANGED <<targetModel, lastMouthValue, factoryModel, puppet, docListeners,
                   elListeners, gestureHandlers, handlerRuns, writes, ticks, signal, destroyed, page, agent>>

\* ---- the update loop
\* A slip: the puppet is taken to have a motion manager
MotionManagerAssumed(p) == TRUE

\* updateMouthParameters' guard: targetModel?.internalModel?.motionManager
HasMotionManager(p) == p.motionManager

\* A slip: the guard does not look at the target puppet
TickRunsWithoutTarget == isStreamActive /\ streamAnalyzer # 0

\* updateLipSync's guard
TickRuns == isStreamActive /\ streamAnalyzer # 0 /\ targetModel

\* One invocation of the frame callback with handle frame; the analyser holds
\* samples of the given amplitude.  fault: the statement of this tick that throws,
\* getFloatTimeDomainData ("analyser") or the first parameter lookup / write
\* ("write").  updateLipSync has no try block: the exception leaves the callback
\* and line 232 is not reached.
UpdateLipSync(frame, amplitude, fault) ==
    /\ frame \in rafPending
    /\ IF TickRuns
       THEN /\ ticks < MaxTicks + MaxSilence
            /\ LET value == Smooth(ShapedOf[amplitude], lastMouthValue)
                   next == FreshFrame(rafPending \ {frame})
               IN  CASE fault = "none" ->
                          /\ IF HasMotionManager(puppet)
                             THEN /\ lastMouthValue' = value
                                  /\ signal' = SignalAfter(amplitude, signal,
                                                           lastMouthValue, TRUE)
                                  /\ writes' = MouthWrites(puppet, value)
                             ELSE /\ lastMouthValue' = lastMouthValue
                                  /\ signal' = SignalAfter(amplitude, signal,
                                                           lastMouthValue, FALSE)
                                  /\ writes' = <<>>
                          /\ animationFrameId' = next
                          /\ rafPending' = (rafPending \ {frame}) \cup {next}
                          /\ last' = Last("tick", TRUE, FALSE)
                     [] fault = "analyser" ->
                          /\ rafPending' = rafPending \ {frame}
                          /\ writes' = <<>>
                          /\ last' = Last("fault", FALSE, FALSE)
                          /\ UNCHANGED <<lastMouthValue, signal, animationFrameId>>
                     [] fault = "write" ->
                          /\ HasMotionManager(puppet)
                          /\ MouthWrites(puppet, value) # <<>>
                          /\ lastMouthValue' = value
                          /\ signal' = SignalAfter(amplitude, signal, lastMouthValue, TRUE)
                          /\ rafPending' = rafPending \ {frame}
                          /\ writes' = <<>>
                          /\ last' = Last("fault", FALSE, FALSE)
                          /\ UNCHANGED animationFrameId
            /\ ticks' = ticks + 1
       ELSE /\ fault = "none"
            /\ rafPending' = rafPending \ {frame}
            /\ last' = Last("tick", FALSE, FALSE)
            /\ UNCHANGED <<lastMouthValue, writes, animationFrameId, ticks, signal>>
    /\ UNCHANGED <<streamAudioElement, streamAnalyzer, streamContext, streamSource,
                   silentGain, isStreamActive, targetModel, factoryModel, puppet,
                   ctx, edges, calls, resumePending, docListeners, elListeners,
                   gestureHandlers, handlerRuns, stopped, destroyed, page, agent>>

\* The puppet changes under the engine: it owns its lip-sync id list and its
\* core model, and the engine reads them anew in every tick
PuppetChanges(p) ==
    /\ puppet # p
    /\ puppet' = p
    /\ last' = Last("puppet", TRUE, FALSE)
    /\ UNCHANGED <<streamAudioElement, streamAnalyzer, streamContext, streamSource,
                   silentGain, isStreamActive, animationFrameId, targetModel,
                   lastMouthValue, factoryModel, ctx, edges, rafPending, calls,
                   resumePending, docListeners, elListeners, gestureHandlers,
                   handlerRuns, writes, ticks, signal, stopped, destroyed, page, agent>>

\* ---- the deferred resume
\* A click / touchstart / keydown on the document: every listener of that event
\* is removed ({once: true}) and its resumeOnGesture runs up to the await of
\* resume(), or to its end if tryResume has no resume() to wait for
Gesture(event) ==
    LET fired == {k \in Calls : <<k, event>> \in docListeners}
        t == ResumeTarget(streamContext, ctx)
    IN  /\ fired # {}
        /\ IF t # 0
           THEN \* the handlers wait for resume(): only this event's listeners are gone
                /\ docListeners' = docListeners \ {<<k, event>> : k \in fired}
                /\ gestureHandlers' = gestureHandlers \cup
                       {[call |-> k, event |-> event, awaiting |-> t] : k \in fired}
           ELSE \* nothing to wait for: the handlers end before any other event
                /\ docListeners' =
                       docListeners \ {<<k, e>> : k \in fired, e \in GestureEvents}
                /\ gestureHandlers' = gestureHandlers
        /\ handlerRuns' = [k \in Calls |->
               IF k \in fired THEN handlerRuns[k] + 1 ELSE handlerRuns[k]]
        /\ resumePending' = resumePending \cup (IF t # 0 THEN {t} ELSE {})
        /\ last' = Last("event", TRUE, FALSE)
        /\ UNCHANGED <<streamAudioElement, streamAnalyzer, streamContext, streamSource,
                       silentGain, isStreamActive, animationFrameId, targetModel,
                       lastMouthValue, factoryModel, puppet, ctx, edges, rafPending,
                       calls, elListeners, writes, ticks, signal, stopped, destroyed, page, agent>>

\* resumeOnGesture after its await: the three removeEventListener calls
GestureHandlerFinish(h) ==
    /\ h \in gestureHandlers
    /\ h.awaiting \notin resumePending
    /\ gestureHandlers' = gestureHandlers \ {h}
    /\ docListeners' = docListeners \ {<<h.call, e>> : e \in GestureEvents}
    /\ last' = Last("event", TRUE, FALSE)
    /\ UNCHANGED <<streamAudioElement, streamAnalyzer, streamContext, streamSource,
                   silentGain, isStreamActive, animationFrameId, targetModel,
                   lastMouthValue, factoryModel, puppet, ctx, edges, rafPending,
                   calls, resumePending, elListeners, handlerRuns, writes, ticks, signal,
                   stopped, destroyed, page, agent>>

\* A 'playing' event of an audio element: onPlaying of every call listening on it
Playing(audioElement) ==
    LET fired == {l \in elListeners : l[2] = audioElement}
        t == ResumeTarget(streamContext, ctx)
    IN  /\ fired # {}
        /\ elListeners' = elListeners \ fired
        /\ resumePending' = resumePending \cup (IF t # 0 THEN {t} ELSE {})
        /\ last' = Last("event", TRUE, FALSE)
        /\ UNCHANGED <<streamAudioElement, streamAnalyzer, streamContext, streamSource,
                       silentGain, isStreamActive, animationFrameId, targetModel,
                       lastMouthValue, factoryModel, puppet, ctx, edges, rafPending,
                       calls, docListeners, gestureHandlers, handlerRuns, writes,
                       ticks, signal, stopped, destroyed, page, agent>>

\* The resume() promises of context c settle: resolved (the context runs) or
\* rejected (it stays as it is); a closed context can only reject
ResumeSettles(c, resolved) ==
    /\ c \in resumePending
    /\ resolved => ctx[c].state # "closed"
    /\ resumePending' = resumePending \ {c}
    /\ ctx' = IF resolved THEN [ctx EXCEPT ![c].state = "running"] ELSE ctx
    /\ last' = Last("event", TRUE, FALSE)
    /\ UNCHANGED <<streamAudioElement, streamAnalyzer, streamContext, streamSource,
                   silentGain, isStreamActive, animationFrameId, targetModel,
                   lastMouthValue, factoryModel, puppet, edges, rafPending, calls,
                   docListeners, elListeners, gestureHandlers, handlerRuns, writes,
                   ticks, signal, stopped, destroyed, page, agent>>

\* ---------------------------------------------------------- specifications
\* The working ticks of a behaviour are bounded
TickBudget == TickRuns => ticks < MaxTicks

PublicCall ==
    \/ /\ CallsStarted < MaxConnects
       /\ \E audioElement \in Elements, paused \in BOOLEAN,
             state0 \in {"suspended", "running"}, failAt \in FailPoints :
             ConnectLiveKitAudio(audioElement, paused, state0, failAt)
    \/ /\ CallsStarted < MaxConnects
       /\ \E state0 \in {"suspended", "running"}, failAt \in FailPoints :
             ConnectMediaStream(state0, failAt)
    \/ DisconnectStream
    \/ Destroy
    \/ ModelDestroy
    \/ \E model \in BOOLEAN : SetTargetModel(model)

Continuation ==
    \/ \E k \in Calls : ConnectAfterPlay(k)
    \/ \E k \in Calls : ConnectFinish(k)
    \/ \E frame \in rafPending, amplitude \in Amplitudes, fault \in TickFaults :
          TickBudget /\ UpdateLipSync(frame, amplitude, fault)
    \/ \E c \in Calls, resolved \in BOOLEAN : ResumeSettles(c, resolved)

\* What the page's user and the audio element raise
DomEvent ==
    \/ \E event \in GestureEvents : Gesture(event)
    \/ \E h \in gestureHandlers : GestureHandlerFinish(h)
    \/ \E audioElement \in Elements : Playing(audioElement)

\* Every interleaving: a public call may start while connect* calls are suspended
Next == PublicCall \/ Continuation

Spec == Init /\ [][Next]_vars

\* Public calls one at a time: none starts while a connect* call is suspended
NextSeq == (InFlight = {} /\ PublicCall) \/ Continuation

SpecSeq == Init /\ [][NextSeq]_vars

\* Connects whose graph construction succeeds, and disconnects
EventCall ==
    \/ /\ CallsStarted < MaxConnects
       /\ \E audioElement \in Elements, paused \in BOOLEAN,
             state0 \in {"suspended", "running"} :
             ConnectLiveKitAudio(audioElement, paused, state0, "none")
    \/ /\ CallsStarted < MaxConnects
       /\ \E state0 \in {"suspended", "running"} : ConnectMediaStream(state0, "none")
    \/ DisconnectStream

\* The continuations of connect*.  The frame callbacks are left out here: they
\* read and write nothing the listeners and the resume attempts depend on.
EventContinuation ==
    \/ \E k \in Calls : ConnectAfterPlay(k)
    \/ \E k \in Calls : ConnectFinish(k)
    \/ \E c \in Calls, resolved \in BOOLEAN : ResumeSettles(c, resolved)

\* Those calls one at a time, with the gestures of the user and the 'playing'
\* events of the audio elements arriving at any moment
NextEvents == (InFlight = {} /\ EventCall) \/ EventContinuation \/ DomEvent

SpecEvents == Init /\ [][NextEvents]_vars

\* The update loop on puppets of every shape: one stream connected on a running
\* context, the frames, the puppet changing between frames, the disconnect
NextFrames ==
    \/ CallsStarted < MaxConnects /\ ConnectMediaStream("running", "none")
    \/ \E frame \in rafPending, amplitude \in Amplitudes, fault \in TickFaults :
          TickBudget /\ UpdateLipSync(frame, amplitude, fault)
    \/ \E p \in Puppets : PuppetChanges(p)
    \/ DisconnectStream

SpecFrames == InitPuppets /\ [][NextFrames]_vars

\* In SpecSignal the analyser holds any amplitude during the first MaxTicks
\* working ticks and silence during MaxSilence more
SignalBudget(amplitude) ==
    TickRuns => \/ ticks < MaxTicks
                \/ amplitude = 0 /\ ticks < MaxTicks + MaxSilence

\* The signal chain: one stream connected on a running context, then the frames,
\* the analyser holding samples of every amplitude, while the puppet may be
\* replaced by one without a motion manager and back
NextSignal ==
    \/ CallsStarted = 0 /\ ConnectMediaStream("running", "none")
    \/ \E p \in Puppets : /\ p.motionManager # puppet.motionManager
                           /\ PuppetChanges(p)
    \/ \E frame \in rafPending, amplitude \in SignalAmplitudes :
          SignalBudget(amplitude) /\ UpdateLipSync(frame, amplitude, "none")

SpecSignal == InitPuppets /\ [][NextSignal]_vars

\* Streams connected in quick succession, each call started while the earlier
\* ones still wait for resume() (as CallPage.handleAudioTrack starts them, without
\* awaiting), then the frames and the disconnect
NextOverlap ==
    \/ ConnectMediaStream("suspended", "none")
    \/ \E k \in Calls : ConnectFinish(k)
    \/ \E c \in Calls, resolved \in BOOLEAN : ResumeSettles(c, resolved)
    \/ \E frame \in rafPending, amplitude \in Amplitudes :
          TickBudget /\ UpdateLipSync(frame, amplitude, "none")
    \/ DisconnectStream

SpecOverlap == Init /\ [][NextOverlap]_vars

\* The browser runs every pending frame callback
FrameFires(frame) ==
    \E amplitude \in Amplitudes : TickBudget /\ UpdateLipSync(frame, amplitude, "none")

\* Streams connected one after the other, the puppet given and taken away, the
\* disconnect; no platform fault inside a tick, and every frame callback that
\* stays pending is eventually run
NextLive ==
    \/ /\ CallsStarted < MaxConnects
       /\ InFlight = {}
       /\ \E state0 \in {"suspended", "running"} : ConnectMediaStream(state0, "none")
    \/ \E k \in Calls : ConnectFinish(k)
    \/ \E c \in Calls, resolved \in BOOLEAN : ResumeSettles(c, resolved)
    \/ \E model \in BOOLEAN : SetTargetModel(model)
    \/ DisconnectStream
    \/ \E frame \in rafPending : FrameFires(frame)

SpecLive ==
    /\ Init
    /\ [][NextLive]_vars
    /\ \A frame \in 1..(MaxOverlap + 1) : WF_vars(FrameFires(frame))


\* ------------------------------------------------- AgentClient (agent-client.tsx)
\* `if (cancelled) return;` after the connection details have been read
AgentProceedsAlways(cancelled) == TRUE
AgentProceeds(cancelled) == ~cancelled

\* The room is connected and still delivers TrackSubscribed to this component
RoomDelivers == agent.pc \in {"mic", "startAudio", "done"} /\ ~agent.cancelled

\* The connect effect runs: connect() starts its fetch and the three unlock
\* listeners are registered on the document
AgentConnectEffect ==
    /\ page.mounted
    /\ agent.pc = "idle"
    /\ agent' = [agent EXCEPT !.pc = "fetch", !.unlock = GestureEvents]
    /\ UNCHANGED <<processorVars, page>>

\* fetch("/api/connection-details") settles: rejected, not ok (throws) or ok
AgentFetchSettles(outcome) ==
    /\ agent.pc = "fetch"
    /\ agent' = [agent EXCEPT !.pc = IF outcome = "ok" THEN "json" ELSE "failed"]
    /\ UNCHANGED <<processorVars, page>>

\* res.json() settles; connect() returns if the effect was cleaned up, else it
\* calls room.connect
AgentJsonSettles(ok) ==
    /\ agent.pc = "json"
    /\ agent' = IF ~ok THEN [agent EXCEPT !.pc = "failed"]
                ELSE IF AgentProceeds(agent.cancelled)
                     THEN [agent EXCEPT !.pc = "connect",
                                        !.connectCalls = agent.connectCalls + 1]
                     ELSE [agent EXCEPT !.pc = "returned"]
    /\ UNCHANGED <<processorVars, page>>

\* room.connect, setMicrophoneEnabled and room.startAudio settle in turn; a
\* rejected startAudio is swallowed
AgentRoomStepSettles(ok) ==
    /\ agent.pc \in {"connect", "mic", "startAudio"}
    /\ agent' = [agent EXCEPT !.pc =
                    CASE agent.pc = "connect" -> IF ok THEN "mic" ELSE "failed"
                      [] agent.pc = "mic" -> IF ok THEN "startAudio" ELSE "failed"
                      [] OTHER -> "done"]
    /\ UNCHANGED <<processorVars, page>>

\* A gesture on the document: the listener of that event is a once listener, and
\* unlock() starts room.startAudio()
AgentUnlockGesture(event) ==
    /\ event \in agent.unlock
    /\ agent' = [agent EXCEPT !.unlock = agent.unlock \ {event},
                              !.unlocking = agent.unlocking + 1]
    /\ UNCHANGED <<processorVars, page>>

\* unlock()'s startAudio settles: its finally block removes the three listeners
AgentUnlockSettles ==
    /\ agent.unlocking > 0
    /\ agent' = [agent EXCEPT !.unlock = {}, !.unlocking = agent.unlocking - 1]
    /\ UNCHANGED <<processorVars, page>>

\* The cleanup of the connect effect: cancelled = true, room.disconnect(), the
\* three listeners removed
AgentCleanedUp ==
    [agent EXCEPT !.cancelled = TRUE, !.cleanedAt = agent.pc, !.unlock = {}]

\* ------------------------------------------------------- CallPage (page.tsx)
\* Script onReady sets live2dLoaded; the effect creates the PIXI application and
\* starts loadLive2DModel
Live2dScriptReady ==
    /\ page.mounted
    /\ ~page.live2dLoaded
    /\ page' = [page EXCEPT !.live2dLoaded = TRUE, !.load = "pending"]
    /\ UNCHANGED <<processorVars, agent>>

\* loadLive2DModel settles. When the import and Live2DModel.from succeed the
\* model is extended by createStreamLive2DModel and stored in modelRef.current,
\* whether or not the effect has been cleaned up meanwhile
LoadLive2DModelSettles(ok) ==
    /\ page.load = "pending"
    /\ page' = IF ok THEN [page EXCEPT !.load = "done", !.created = TRUE,
                                       !.modelRef = TRUE]
                     ELSE [page EXCEPT !.load = "failed"]
    /\ UNCHANGED <<processorVars, agent>>

TracksDelivered == CallsStarted + page.dropped

\* A TrackSubscribed event for an audio track: handleTrackSubscribed attaches it
\* to an element playing its MediaStream and calls handleAudioTrack, which
\* returns at once when modelRef.current is null and otherwise calls
\* disconnectStream() and connectLiveKitAudio()
HandleAudioTrack(paused, state0, failAt) ==
    /\ page.mounted
    /\ RoomDelivers
    /\ TracksDelivered < MaxConnects
    /\ IF page.modelRef
       THEN /\ ConnectLiveKitAudio("audioA", paused, state0, failAt)
       ELSE /\ page' = [page EXCEPT !.dropped = page.dropped + 1]
            /\ UNCHANGED <<processorVars, agent>>

\* The component unmounts: the cleanup of the Live2D effect (disconnectStream and
\* destroy of the model in modelRef.current, if any, then modelRef.current =
\* null) and the cleanup of AgentClient's connect effect
Unmount ==
    /\ page.mounted
    /\ agent.pc # "idle"
    /\ IF page.modelRef THEN ModelDestroyed ELSE UNCHANGED processorVars
    /\ page' = [page EXCEPT !.mounted = FALSE, !.modelRef = FALSE,
                            !.live2dLoaded = FALSE]
    /\ agent' = AgentCleanedUp

InitPage ==
    /\ Constructed
    /\ factoryModel = FactoryModel
    /\ targetModel = TRUE
    /\ puppet = DefaultPuppet

NextPage ==
    \/ AgentConnectEffect
    \/ \E outcome \in {"ok", "notOk", "rejected"} : AgentFetchSettles(outcome)
    \/ \E ok \in BOOLEAN : AgentJsonSettles(ok)
    \/ \E ok \in BOOLEAN : AgentRoomStepSettles(ok)
    \/ \E event \in GestureEvents : AgentUnlockGesture(event)
    \/ AgentUnlockSettles
    \/ Live2dScriptReady
    \/ \E ok \in BOOLEAN : LoadLive2DModelSettles(ok)
    \/ \E paused \in BOOLEAN, state0 \in {"suspended", "running"},
          failAt \in FailPoints : HandleAudioTrack(paused, state0, failAt)
    \/ Unmount
    \/ \E k \in Calls : ConnectAfterPlay(k)
    \/ \E k \in Calls : ConnectFinish(k)
    \/ \E c \in Calls, resolved \in BOOLEAN : ResumeSettles(c, resolved)

SpecPage == InitPage /\ [][NextPage]_vars


\* ------------------------------------------------------------- properties
OpenContexts == {c \in Calls : ctx[c].state \in {"suspended", "running"}}
FramePending == animationFrameId # 0 /\ animationFrameId \in rafPending
ResolvedTrue == last.op = "resolve" /\ last.ok
ResolvedFalse == last.op = "resolve" /\ ~last.ok

\* C1: isStreamActive implies that the source, the analyser and a scheduled frame
\* callback are all present, and ~isStreamActive implies that all three are
\* absent, in every reachable state (also while a connect* call is suspended).
StrictPairing ==
    /\ isStreamActive => (streamSource # 0 /\ streamAnalyzer # 0 /\ FramePending)
    /\ ~isStreamActive => (streamSource = 0 /\ streamAnalyzer = 0 /\ rafPending = {})

\* C2: when connect* returns false (a construction step failed), the engine is
\* fully disconnected: inactive, no frame scheduled, no context / source /
\* analyser / gain / element held, and the context that call created is closed.
FailedConnectLeavesDisconnected ==
    ResolvedFalse =>
        /\ ~isStreamActive
        /\ rafPending = {}
        /\ streamContext = 0
        /\ streamSource = 0
        /\ streamAnalyzer = 0
        /\ silentGain = 0
        /\ streamAudioElement = NoElement
        /\ CallsStarted \notin OpenContexts

\* C3: with public calls run one at a time, at most one AudioContext is open at
\* any time, and when a connect* resolves to true exactly one graph exists: the
\* one that call built, held by the engine, its source wired to its analyser.
OneGraphAtATime ==
    /\ Cardinality(OpenContexts) <= 1
    /\ ResolvedTrue =>
          /\ OpenContexts = {CallsStarted}
          /\ streamContext = CallsStarted
          /\ streamSource = CallsStarted
          /\ streamAnalyzer = CallsStarted
          /\ <<CallsStarted, "source", "analyser">> \in edges

\* C3 witness: the second of two successive connects resolved to true, and the
\* graph the first one built is closed
SecondConnectReplacedFirst ==
    /\ ResolvedTrue
    /\ CallsStarted = 2
    /\ ctx[1].state = "closed"
    /\ calls[1].result = "true"

\* C4: at most one update-loop frame callback is pending at any time, also when
\* a connect* call starts while an earlier one is suspended at an await.
OneFramePending == Cardinality(rafPending) <= 1

DestroyIsTerminal ==
    destroyed =>
        /\ ~isStreamActive
        /\ streamContext = 0
        /\ streamSource = 0
        /\ streamAnalyzer = 0
        /\ silentGain = 0
        /\ ~TickRuns

\* C7: when connect* resolves to true, isStreaming is true, hasAnalyzer is true
\* and an update-loop tick is scheduled, in every interleaving.
ResolvedTrueIsStreaming ==
    ResolvedTrue => (isStreamActive /\ streamAnalyzer # 0 /\ FramePending)

\* C8: isStreaming read on the model createStreamLive2DModel returned equals
\* getAudioData().isActive (the processor's own getter returns that field).
FactoryModelReflectsActive ==
    factoryModel.attached => factoryModel.isStreaming = isStreamActive

\* C9: immediately after a connect* that resolved to true, lastMouthValue is 0.
ReconnectResetsMouthValue == ResolvedTrue => lastMouthValue = MouthZero

\* C10: disconnectStream on a never-connected engine, or right after a
\* disconnectStream, changes no engine field and nothing around the engine, and
\* isStreaming is false: disconnecting twice equals disconnecting once.
DisconnectIdempotent ==
    [][(last.op \in {"init", "disconnect"} /\ last'.op = "disconnect") =>
          /\ engineFields' = engineFields
          /\ ~isStreamActive'
          /\ ctx' = ctx
          /\ edges' = edges
          /\ rafPending' = rafPending]_vars

\* C10 witness: the second of two disconnectStream calls in a row has returned,
\* the first one having torn down a graph
DisconnectedTwice ==
    /\ last.op = "disconnect"
    /\ last.repeat
    /\ \E c \in Calls : ctx[c].state = "closed" /\ calls[c].result = "true"

\* C11: after disconnectStream() has returned, from any reachable state, the
\* source, analyser and silent-gain nodes are disconnected and their references
\* cleared, no AudioContext is open and the context reference is cleared, and the
\* audio-element reference is cleared.
DisconnectReleasesAll ==
    last.op = "disconnect" =>
        /\ streamSource = 0
        /\ streamAnalyzer = 0
        /\ silentGain = 0
        /\ edges = {}
        /\ streamContext = 0
        /\ OpenContexts = {}
        /\ streamAudioElement = NoElement

\* C11 witness: a disconnectStream that followed other operations has returned,
\* and the context of a connect that had succeeded is closed
GraphTornDown ==
    /\ last.op = "disconnect"
    /\ ~last.repeat
    /\ \E c \in Calls : ctx[c].state = "closed" /\ calls[c].result = "true"

\* C12: connectLiveKitAudio and connectMediaStream never reject: whatever step
\* fails (the opening disconnectStream, a construction step, play, resume), a
\* call that has returned has resolved to true or to false.
ConnectNeverRejects ==
    \A k \in Calls :
        /\ calls[k].result \in {"pending", "true", "false"}
        /\ calls[k].pc = "done" <=> calls[k].result \in {"true", "false"}

\* C12 witness: a connect* call that hit a fault has resolved to false, after an
\* earlier call had resolved to true
FaultResolvedFalse ==
    /\ ResolvedFalse
    /\ \E k \in Calls : calls[k].result = "true"

\* C13: a fault raised inside a tick is a skipped frame: while the engine stays
\* active the next tick is still scheduled after the faulty one.
TickFaultSkipsFrame ==
    (last.op = "fault" /\ isStreamActive) => rafPending # {}

\* C14: a resume failure is not fatal.  When a connect* whose graph was built
\* returns while its context is still suspended (resume() was rejected), it
\* returns true with the engine active and a frame scheduled, and
\* connectLiveKitAudio has its gesture and 'playing' listeners registered; and any
\* later gesture or 'playing' event that reaches a listener of that call while
\* the context is suspended calls resume() on it again.
ResumeFailureNonFatal ==
    /\ [](( /\ ResolvedTrue
            /\ streamContext # 0
            /\ ctx[streamContext].state = "suspended" ) =>
              /\ streamContext = CallsStarted
              /\ isStreamActive
              /\ FramePending
              /\ streamAudioElement # NoElement =>
                    /\ \A e \in GestureEvents : <<streamContext, e>> \in docListeners
                    /\ <<streamContext, streamAudioElement>> \in elListeners)
    /\ [][( /\ streamContext # 0
            /\ ctx[streamContext].state = "suspended"
            /\ \/ handlerRuns'[streamContext] > handlerRuns[streamContext]
               \/ \E l \in elListeners \ elListeners' : l[1] = streamContext ) =>
              streamContext \in resumePending']_vars

\* C14 witness: a connectLiveKitAudio returned true on a context that stayed
\* suspended, and the handler of a later gesture now awaits a new resume() on it
GestureRetriedResume ==
    /\ isStreamActive
    /\ streamContext # 0
    /\ ctx[streamContext].state = "suspended"
    /\ calls[streamContext].result = "true"
    /\ \E h \in gestureHandlers : h.call = streamContext /\ h.awaiting = streamContext

\* C15: for each connectLiveKitAudio call, resumeOnGesture runs at most once over
\* all the click, touchstart and keydown events that follow - also when a second
\* gesture arrives while the handler still awaits the resume.
GestureResumeFiresOnce == \A k \in Calls : handlerRuns[k] <= 1

\* C16: deferred-resume listeners do not accumulate: every gesture listener on
\* the document belongs to the connect whose graph the engine holds (none after a
\* disconnectStream), so there are never more than one call's three.
ListenersDoNotAccumulate ==
    /\ \A l \in docListeners : l[1] = streamContext
    /\ Cardinality(docListeners) <= Cardinality(GestureEvents)

\* C17: after disconnectStream() the engine holds no reference to and no listener
\* on the old audio element, and a later 'playing' event of an element the
\* engine does not hold makes it do nothing.
OldSourceNeverTouched ==
    /\ [](last.op = "disconnect" => (streamAudioElement = NoElement /\ elListeners = {}))
    /\ [][(\E l \in elListeners \ elListeners' : l[2] # streamAudioElement) =>
             resumePending' = resumePending]_vars

\* The ids of a sequence of parameter writes
WrittenIds(ws) == {ws[i].id : i \in 1..Len(ws)}

\* The ids the puppet reports as its lip-sync parameters
ListedIds ==
    IF puppet.listed THEN {puppet.lipSyncIds[i] : i \in 1..Len(puppet.lipSyncIds)}
                     ELSE {}

\* C18: a tick writes only to ids of the puppet's lip-sync id list as it is read
\* in that tick (setParamFloat at the index of such an id), and an empty or
\* missing list yields no write at all.
WritesOnlyLipSyncIds ==
    [][ticks' = ticks + 1 =>
          /\ WrittenIds(writes') \subseteq ListedIds
          /\ \A i \in 1..Len(writes') :
                 writes'[i].fn = "setParamFloat" =>
                     /\ writes'[i].index >= 0
                     /\ writes'[i].index = puppet.paramIndex[writes'[i].id]
          /\ ListedIds = {} => writes' = <<>>]_vars

\* C18 witness: a tick on a puppet that lists two ids, one of them unknown to the
\* core model, has written
TickWroteListedIds ==
    /\ last.op = "tick"
    /\ last.ok
    /\ writes # <<>>
    /\ Cardinality(ListedIds) = 2

\* C19: the update loop runs while the engine is active: whenever the engine is
\* active and holds a puppet, a further working tick follows unless the engine is
\* stopped or the puppet taken away - also when the puppet was absent at connect
\* time and came later through setTargetModel.
LoopRunsWhileActive ==
    \A n \in 0..(MaxTicks - 1) :
        (isStreamActive /\ targetModel /\ ticks = n)
            ~> (~isStreamActive \/ ~targetModel \/ ticks > n)

\* C20: when disconnectStream() has returned, at most one frame callback of the
\* engine is still pending (so at most one further tick callback is invoked).
OneStaleFrameAtMost == last.op = "disconnect" => Cardinality(rafPending) <= 1

\* A mouth value m / (PowScale * 2^k) lies in [0, 1]
InUnitRange(v) == 0 <= v.m /\ v.m <= PowScale * TwoTo(v.k)

\* C21: lastMouthValue is in [0, 1] in every reachable state, for any sequence
\* of ticks with any intensities in [0, 1], and so is every value written to the
\* puppet.
MouthValueInUnitRange ==
    /\ signal.intensity \in 0..Milli
    /\ InUnitRange(lastMouthValue)
    /\ \A i \in 1..Len(writes) : InUnitRange(writes[i].value)

\* C21 witness: two ticks at full scale have brought the mouth value to 3/4, and
\* it was written to the puppet
MouthValueThreeQuarters ==
    /\ ticks = 2
    /\ 4 * lastMouthValue.m = 3 * PowScale * TwoTo(lastMouthValue.k)
    /\ writes # <<>>

\* C22 as stated: for every tick whose sample buffer is all zeros the new
\* lastMouthValue is exactly half the previous one, so after n silent ticks in a
\* row it is 1/2^n of its value before them.
SilentTickHalves ==
    signal.silentRun > 0 =>
        lastMouthValue.m * TwoTo(signal.silentStart.k) * TwoTo(signal.silentRun)
          = signal.silentStart.m * TwoTo(lastMouthValue.k)

\* C22, amended: for every tick whose sample buffer is all zeros and whose puppet
\* has a motion manager, analyzeAudio yields 0, the gated and shaped values are 0
\* and lastMouthValue becomes exactly half of what it was; a silent tick of a
\* puppet without one leaves it as it is.  After n such ticks in a run of silence
\* it is 1/2^n of its value before the run, so at most 1/1024 after ten.
SilenceHalvesMouthValue ==
    /\ signal.silentSmoothed <= signal.silentRun
    /\ signal.silentRun > 0 =>
          lastMouthValue.m * TwoTo(signal.silentStart.k) * TwoTo(signal.silentSmoothed)
            = signal.silentStart.m * TwoTo(lastMouthValue.k)
    /\ signal.silentSmoothed > 0 =>
          /\ signal.intensity = 0
          /\ signal.gated = 0
          /\ signal.shaped = 0
    /\ signal.silentSmoothed >= 10 =>
          /\ 1024 * lastMouthValue.m * TwoTo(signal.silentStart.k)
                 <= signal.silentStart.m * TwoTo(lastMouthValue.k)
          /\ \A i \in 1..Len(writes) : writes[i].value = lastMouthValue

\* C22 witness: ten silent ticks in a row, begun with the mouth open, written to
\* the puppet
TenSilentTicks ==
    /\ signal.silentSmoothed = 10
    /\ signal.silentStart.m > 0
    /\ lastMouthValue.m > 0
    /\ writes # <<>>

\* C23: the noise gate: gated = 0 for an intensity below 0.2 and
\* (intensity - 0.2) / 0.8 from 0.2 on; 0.2 gives 0, 0.6 gives 0.5, and gated is
\* always in [0, 1].
NoiseGateLaw ==
    /\ signal.gated \in 0..PowScale
    /\ signal.intensity < 200 => signal.gated = 0
    /\ signal.intensity >= 200 =>
          signal.gated * 800 = (signal.intensity - 200) * PowScale
    /\ signal.intensity = 200 => signal.gated = 0
    /\ signal.intensity = 600 => 2 * signal.gated = PowScale

\* C23 witness: a tick whose intensity was exactly 0.6
GateAtSixTenths == ticks > 0 /\ signal.intensity = 600 /\ signal.gated > 0

\* C24: shaping is monotonic: of the gated values of two successive ticks, the
\* smaller one never has the larger shaped value, and shaped values are in [0, 1].
ShapingMonotonic ==
    [][ticks' = ticks + 1 =>
          /\ signal'.shaped \in 0..PowScale
          /\ signal.gated < signal'.gated => signal.shaped <= signal'.shaped
          /\ signal.gated > signal'.gated => signal.shaped >= signal'.shaped
          /\ signal.gated = signal'.gated => signal.shaped = signal'.shaped]_vars

\* C24 witness: a second tick whose gated value is above the gate and whose
\* shaped value is below the clamp
ShapedBelowClamp ==
    /\ ticks = 2
    /\ signal.gated > 0
    /\ signal.shaped > signal.gated
    /\ signal.shaped < PowScale

\* C25: a tick that finds the engine inactive, or the analyser missing, or the
\* target puppet missing reads no sample, leaves lastMouthValue alone, writes no
\* parameter and schedules no frame: its own frame is gone and nothing replaces it.
IdleTickIsNoOp ==
    [][(/\ last'.op = "tick"
        /\ rafPending' # rafPending
        /\ ~isStreamActive \/ streamAnalyzer = 0 \/ ~targetModel)
       => /\ ~last'.ok
          /\ ticks' = ticks
          /\ signal' = signal
          /\ lastMouthValue' = lastMouthValue
          /\ writes' = writes
          /\ animationFrameId' = animationFrameId
          /\ rafPending' \subseteq rafPending
          /\ Cardinality(rafPending') = Cardinality(rafPending) - 1]_vars

\* C25 witness: the engine is active with its analyser, the target puppet is
\* missing, and the tick that found it so has left no frame scheduled
TickFoundNoTarget ==
    /\ last = Last("tick", FALSE, FALSE)
    /\ isStreamActive
    /\ streamAnalyzer # 0
    /\ ~targetModel
    /\ rafPending = {}

\* The positions of ws that hold a call of fn for the parameter id
WritesOf(ws, fn, id) == {i \in 1..Len(ws) : ws[i].fn = fn /\ ws[i].id = id}

\* C26: in each working tick, for every id of the puppet's lip-sync id list:
\* setParamFloat(index, value) is called exactly once if the puppet has
\* setParamFloat and getParamIndex(id) >= 0, and not at all if the index is
\* negative; addParameterValueById(id, value, 0.8) is called exactly once if the
\* puppet has addParameterValueById; a puppet with both receives both, every set
\* before every add; a puppet with neither receives no write; and in each case
\* the tick schedules the next frame.
WriteConventions ==
    [][(last'.op = "tick" /\ last'.ok /\ ticks' = ticks + 1) =>
          /\ \A id \in ParamIds :
                /\ Cardinality(WritesOf(writes', "setParamFloat", id))
                     = IF /\ puppet.motionManager
                          /\ id \in ListedIds
                          /\ puppet.setParamFloat
                          /\ puppet.paramIndex[id] >= 0
                       THEN 1 ELSE 0
                /\ Cardinality(WritesOf(writes', "addParameterValueById", id))
                     = IF /\ puppet.motionManager
                          /\ id \in ListedIds
                          /\ puppet.addParameterValueById
                       THEN 1 ELSE 0
          /\ \A i \in 1..Len(writes') :
                /\ writes'[i].fn \in {"setParamFloat", "addParameterValueById"}
                /\ writes'[i].id \in ParamIds
                /\ puppet.motionManager => writes'[i].value = lastMouthValue'
                /\ writes'[i].fn = "setParamFloat" =>
                      writes'[i].index = puppet.paramIndex[writes'[i].id]
                /\ writes'[i].fn = "addParameterValueById" =>
                      writes'[i].weightTenths = 8
          /\ \A i, j \in 1..Len(writes') :
                (/\ writes'[i].fn = "setParamFloat"
                 /\ writes'[j].fn = "addParameterValueById") => i < j
          /\ animationFrameId' \in rafPending'
          /\ Cardinality(rafPending') = Cardinality(rafPending)]_vars

\* C26 witness: a working tick on a puppet that has both conventions has called
\* setParamFloat and then addParameterValueById for its one lip-sync id
TickWroteBothWays ==
    /\ last = Last("tick", TRUE, FALSE)
    /\ puppet.setParamFloat /\ puppet.addParameterValueById
    /\ Len(writes) = 2
    /\ writes[1].fn = "setParamFloat"
    /\ writes[2].fn = "addParameterValueById"
    /\ FramePending

\* C27: connectLiveKitAudio registers its deferred-resume listeners (the three
\* document listeners and the element's 'playing' listener) only if its resume
\* attempt failed or left the context suspended: a step that registers listeners
\* of a call is one after which that call's context is not running.
ListenersOnlyIfStillSuspended ==
    [][\A k \in Calls :
          (\/ \E e \in GestureEvents : <<k, e>> \in docListeners' \ docListeners
           \/ \E el \in Elements : <<k, el>> \in elListeners' \ elListeners)
          => ctx'[k].state # "running"]_vars

\* C28: connectLiveKitAudio builds its source node from the element's stream
\* whenever srcObject is a MediaStream and from the element itself only when it
\* is not, and a context never has more than the one source node of its connect.
SourceFromStreamIfAny ==
    /\ [][(/\ CallsStarted' = CallsStarted + 1
           /\ streamAudioElement' # NoElement
           /\ streamSource' = CallsStarted')
          => ctx'[streamSource'].source =
                 IF HasStream(streamAudioElement') THEN "stream" ELSE "element"]_vars
    /\ [](\A k \in Calls :
             /\ ctx[k].source \in {"none", "stream", "element"}
             /\ ctx[k].analyser => ctx[k].source # "none")

\* C28 witness: a connect on an element that plays a MediaStream is streaming
\* from a stream source
StreamingFromElementStream ==
    /\ ResolvedTrue
    /\ streamAudioElement # NoElement
    /\ HasStream(streamAudioElement)
    /\ streamSource # 0
    /\ ctx[streamSource].source = "stream"

\* The engine state a connect reaches, without the element reference, the
\* listeners and the state of the context (which is the browser's)
EngineGraph ==
    [context |-> streamContext, source |-> streamSource,
     analyzer |-> streamAnalyzer, gain |-> silentGain,
     sourceKind |-> ctx[streamContext].source,
     windowSize |-> ctx[streamContext].fftSize,
     smoothingTenths |-> ctx[streamContext].smoothingTenths,
     gainValue |-> ctx[streamContext].gainValue,
     wiring |-> {<<e[2], e[3]>> : e \in {x \in edges : x[1] = streamContext}},
     active |-> isStreamActive,
     scheduled |-> FramePending,
     frames |-> Cardinality(rafPending)]

\* C29: connectMediaStream(s) and connectLiveKitAudio(e), e playing the stream
\* s, reach the same engine state: when either has returned true, the engine
\* holds the nodes of that call's context, a stream source, an analyser of
\* window 256 and smoothing 0.9, a gain of 0, source -> analyser,
\* source -> gain -> destination, it is active and one frame is scheduled.
\* Only connectLiveKitAudio stores an element; only it has listeners.
SameGraphEitherWay ==
    /\ (ResolvedTrue /\ (streamAudioElement # NoElement => HasStream(streamAudioElement)))
         => /\ streamContext # 0
            /\ EngineGraph =
                 [context |-> streamContext, source |-> streamContext,
                  analyzer |-> streamContext, gain |-> streamContext,
                  sourceKind |-> "stream", windowSize |-> 256,
                  smoothingTenths |-> 9, gainValue |-> 0,
                  wiring |-> {<<"source", "analyser">>, <<"source", "gain">>,
                              <<"gain", "destination">>},
                  active |-> TRUE, scheduled |-> TRUE, frames |-> 1]
            /\ ctx[streamContext].state \in {"running", "suspended"}
    /\ \A k \in Calls :
          (\E e \in GestureEvents : <<k, e>> \in docListeners)
              => \E el \in Elements : <<k, el>> \in elListeners

\* C29 witness: a connectMediaStream (it left no listener and no element) has
\* returned true, and after it a connectLiveKitAudio on an element that plays a
\* stream has returned true
BothWaysConnected ==
    /\ ResolvedTrue
    /\ calls[1].result = "true"
    /\ calls[2].result = "true"
    /\ \A e \in GestureEvents : <<1, e>> \notin docListeners
    /\ <<2, "click">> \in docListeners
    /\ streamAudioElement # NoElement
    /\ HasStream(streamAudioElement)
    /\ streamContext = 2

\* C30: whenever a graph exists, every connection to the destination comes from
\* the gain node of a context whose gain is 0, the analyser is connected to
\* nothing, and no step changes the gain of a gain node.
OnlySilentPathToOutput ==
    /\ [](\A e \in edges :
            /\ e[2] # "analyser"
            /\ e[3] = "destination" =>
                  /\ e[2] = "gain"
                  /\ ctx[e[1]].gain
                  /\ ctx[e[1]].gainValue = 0)
    /\ [](\A k \in Calls : ctx[k].gain => ctx[k].gainValue = 0)
    /\ [][\A k \in Calls :
            (ctx[k].gain /\ ctx'[k].gain) => ctx'[k].gainValue = ctx[k].gainValue]_vars

\* C30 witness: the engine is active on a graph whose source reaches the
\* destination through the gain node
SilentPathBuilt ==
    /\ isStreamActive
    /\ streamContext # 0
    /\ <<streamContext, "source", "gain">> \in edges
    /\ <<streamContext, "gain", "destination">> \in edges
    /\ <<streamContext, "source", "analyser">> \in edges
    /\ ctx[streamContext].gainValue = 0

\* C31: destroy() of a model extended by createStreamLive2DModel first destroys
\* the processor (disconnectStream, target released) and then calls the model's
\* original destroy exactly once; when it has returned the processor is
\* inactive and no tick is pending.
ModelDestroyCleansUp ==
    last.op = "modelDestroy" =>
        /\ factoryModel.destroyCalls = <<"audioProcessor.destroy", "originalDestroy">>
        /\ ~targetModel
        /\ ~isStreamActive
        /\ rafPending = {}

\* C32: in every interleaving the engine has at most one unclosed AudioContext
\* of its own, and it is the one streamContext refers to; a disconnectStream or
\* destroy leaves none open, and a connect* that creates a context leaves no
\* other one open.
AtMostOneOpenContext ==
    /\ [](/\ Cardinality(OpenContexts) <= 1
          /\ OpenContexts \subseteq {streamContext})
    /\ [][last'.op \in {"disconnect", "destroy", "modelDestroy"}
            => OpenContexts' = {}]_vars
    /\ [][\A k \in Calls :
            (ctx[k].state = "uncreated" /\ ctx'[k].state # "uncreated")
                => OpenContexts' \subseteq {k}]_vars

\* C32 witness: a connect* is still suspended at its await, a later connect*
\* has closed the context it created and holds its own, the only open one
OverlappedContextClosed ==
    /\ calls[1].pc \in {"play", "resume"}
    /\ ctx[1].state = "closed"
    /\ streamContext = 2
    /\ OpenContexts = {2}

\* C33: a deferred-resume handler (resumeOnGesture or onPlaying) that fires, also
\* long after the connect that registered it, calls resume() on no context but
\* the one the engine holds at that moment, and only if that one is suspended
\* (so never on a closed one); it does nothing when the engine holds no context,
\* and it changes no field of the engine.
StaleHandlerHarmless ==
    [][(\/ handlerRuns' # handlerRuns
        \/ elListeners' # elListeners /\ elListeners' \subseteq elListeners)
       => /\ \A c \in resumePending' \ resumePending :
                c = streamContext /\ ctx[c].state = "suspended"
          /\ streamContext = 0 => resumePending' = resumePending
          /\ UNCHANGED <<streamAudioElement, streamAnalyzer, streamContext,
                         streamSource, silentGain, isStreamActive, animationFrameId,
                         targetModel, lastMouthValue, ctx, edges, rafPending>>]_vars

\* C33 witness: the context of the first connectLiveKitAudio is closed, a
\* connectMediaStream has returned on a context that stayed suspended, and a
\* handler the first call registered has fired and called resume() on that
\* second context
StaleHandlerResumedCurrent ==
    /\ last.op = "event"
    /\ ctx[1].state = "closed"
    /\ calls[2].result = "true"
    /\ handlerRuns[2] = 0
    /\ \A l \in docListeners \cup elListeners : l[1] # 2
    /\ streamContext = 2
    /\ ctx[2].state = "suspended"
    /\ 2 \in resumePending

\* C36: a tick whose puppet has no motion manager writes no parameter and leaves
\* lastMouthValue as it was, and the loop still schedules the next tick.
StaticPuppetTickSkipsSmoothing ==
    [][(ticks' = ticks + 1 /\ last'.op = "tick" /\ ~puppet.motionManager) =>
          /\ writes' = <<>>
          /\ lastMouthValue' = lastMouthValue
          /\ animationFrameId' \in rafPending'
          /\ Cardinality(rafPending') = Cardinality(rafPending)]_vars

\* C36 witness: a tick on a puppet without a motion manager has run with the
\* mouth open, and the next frame is scheduled
StaticPuppetTicked ==
    /\ last = Last("tick", TRUE, FALSE)
    /\ ~puppet.motionManager
    /\ signal.silentRun = 0
    /\ lastMouthValue.m > 0
    /\ FramePending



\* C37: if the cleanup of AgentClient's connect effect runs before the
\* connection-details fetch has resolved, that run never calls room.connect;
\* and after the cleanup none of the three unlock listeners is on the document
CleanupCancelsConnect ==
    /\ agent.cleanedAt = "fetch" => agent.connectCalls = 0
    /\ agent.cancelled => agent.unlock = {}
CancelledBeforeConnect ==
    /\ agent.cleanedAt = "fetch"
    /\ agent.pc = "returned"
    /\ agent.unlocking = 0

\* C34: every audio track delivered to handleAudioTrack gets lip-sync connected:
\* once the model is in modelRef.current, each track delivered so far, also one
\* that arrived while the model was loading, has had its connectLiveKitAudio call
EveryDeliveredTrackConnected ==
    (page.mounted /\ page.modelRef) => CallsStarted = TracksDelivered

\* C35: after the unmount, also one that ran while loadLive2DModel was pending,
\* every model made by createStreamLive2DModel has been disconnected and
\* destroyed, modelRef.current holds no model and no stream is active
UnmountReleasesModel ==
    ~page.mounted =>
        /\ ~page.modelRef
        /\ ~isStreamActive
        /\ page.created =>
              /\ destroyed
              /\ factoryModel.destroyCalls # <<>>

====
